---------------------------- MODULE Spec2Model ----------------------------
(***************************************************************************)
(* Model of the ANDES device-model layer:                                  *)
(*   src/andes/models/governor.py   GovernorBase, TG1, TG2                 *)
(*   src/andes/models/pss/stab2a.py STAB2A output limiter equation         *)
(*                                                                         *)
(* One governor instance attached to one synchronous generator is          *)
(* modelled.  Floating point values are modelled as exact extended         *)
(* rationals [n, d]: d > 0 is a finite value n/d in lowest terms, d = 0 is *)
(* +Inf (n = 1), -Inf (n = -1) or NaN (n = 0).  Rounding is not modelled.  *)
(***************************************************************************)
EXTENDS Integers, Sequences, FiniteSets, TLC

(***************************************************************************)
(* Extended rational arithmetic (cvxopt mul / div and Python + - on        *)
(* doubles).                                                               *)
(***************************************************************************)
Abs(i) == IF i < 0 THEN -i ELSE i

Sign(i) == IF i < 0 THEN -1 ELSE IF i > 0 THEN 1 ELSE 0

RECURSIVE GCD(_, _)
GCD(a, b) == IF b = 0 THEN a ELSE GCD(b, a % b)

\* the value num/den, normalised; den = 0 gives +-Inf or NaN
Q(num, den) ==
    IF den = 0 THEN [n |-> Sign(num), d |-> 0]
    ELSE LET g == GCD(Abs(num), Abs(den))
         IN  [n |-> (Sign(den) * num) \div g, d |-> Abs(den) \div g]

IsNaN(a) == a.d = 0 /\ a.n = 0

IsFinite(a) == a.d > 0

IsZero(a) == a.d > 0 /\ a.n = 0

Neg(a) == [n |-> -a.n, d |-> a.d]

Add(a, b) ==
    IF a.d = 0 /\ b.d = 0 THEN (IF a.n = b.n THEN a ELSE Q(0, 0))
    ELSE IF a.d = 0 THEN a
    ELSE IF b.d = 0 THEN b
    ELSE Q(a.n * b.d + b.n * a.d, a.d * b.d)

Sub(a, b) == Add(a, Neg(b))

\* cvxopt mul (elementwise product): Inf * 0 = NaN
Mul(a, b) ==
    IF a.d = 0 \/ b.d = 0 THEN Q(Sign(a.n) * Sign(b.n), 0)
    ELSE Q(a.n * b.n, a.d * b.d)

Mul3(a, b, c) == Mul(Mul(a, b), c)

\* IEEE quotient: x/0 = +-Inf, 0/0 = NaN, x/Inf = 0
Quot(a, b) ==
    IF IsNaN(a) \/ IsNaN(b) THEN Q(0, 0)
    ELSE IF a.d = 0 /\ b.d = 0 THEN Q(0, 0)
    ELSE IF a.d = 0 THEN Q(a.n * (IF b.n < 0 THEN -1 ELSE 1), 0)
    ELSE IF b.d = 0 THEN Q(0, 1)
    ELSE Q(a.n * b.d, a.d * b.n)

\* a < b on doubles: false as soon as one side is NaN
Lt(a, b) ==
    IF IsNaN(a) \/ IsNaN(b) THEN FALSE
    ELSE IF a.d = 0 /\ b.d = 0 THEN a.n < b.n
    ELSE IF a.d = 0 THEN a.n < 0
    ELSE IF b.d = 0 THEN b.n > 0
    ELSE a.n * b.d < b.n * a.d

Le(a, b) == ~IsNaN(a) /\ ~IsNaN(b) /\ ~Lt(b, a)

Zero == Q(0, 1)

One == Q(1, 1)

\* a service variable that no callback has assigned yet
Unset == [n |-> 0, d |-> -1]


(***************************************************************************)
(* State.                                                                  *)
(*   phase    position of the case: "new" (system constructed), "added"    *)
(*            (governor record added), "ready" (setup done), "failed"      *)
(*            (setup aborted), "aborted" (a callback raised during a pass) *)
(*   p        the governor's parameters as bound by add()                  *)
(*   svc      the governor's service variables (self.gain, self.pm0, ...)  *)
(*   x, y     dae.x / dae.y slots of the generator and the governor        *)
(*   f, g     dae.f / dae.g accumulators                                   *)
(*   jac      triples registered with dae.add_jac                          *)
(*   warn     warnings surfaced so far                                     *)
(*   err      the exception that ended setup or a pass, "none" otherwise   *)
(*   entered  lifecycle callbacks of the governor entered so far           *)
(*   divmode  what cvxopt div does on a zero divisor in this build         *)
(*   synpm0   Synchronous.pm0 of the referenced generator                  *)
(*   ran      callbacks that already ran in the current evaluation pass    *)
(*   npass    evaluation passes begun since setup (0: the initial state)   *)
(*   lastF    x, y and the values written by the latest fcall              *)
(*   pss      the STAB2A instance (limits, V4, vsout, flags, residual)     *)
(***************************************************************************)
VARIABLES phase, p, svc, x, y, f, g, jac, warn, err, entered, divmode,
          synpm0, ran, npass, lastF, pss

govVars == <<phase, p, svc, x, y, f, g, jac, warn, err, entered, divmode,
             synpm0, ran, npass, lastF>>

vars == <<phase, p, svc, x, y, f, g, jac, warn, err, entered, divmode,
          synpm0, ran, npass, lastF, pss>>

(***************************************************************************)
(* Parameters: defaults (self._data) and the mandatory lists.              *)
(***************************************************************************)
GovernorBase_data ==
    [u |-> One, pmax |-> One, pmin |-> Zero, R |-> Q(1, 20), wref0 |-> One]

TG1_data ==
    [T3 |-> Zero, T4 |-> Q(12, 1), T5 |-> Q(50, 1), Tc |-> Q(14, 25),
     Ts |-> Q(1, 10)]

TG2_data == [T1 |-> Q(1, 5), T2 |-> Q(10, 1)]

GovernorBase_mandatory == {"gen", "R"}

TG1_mandatory == GovernorBase_mandatory \cup {"T5", "Tc", "Ts"}

TG2_mandatory == GovernorBase_mandatory \cup {"T2"}

Mandatory(kind) == IF kind = "TG1" THEN TG1_mandatory ELSE TG2_mandatory

\* a parameter record with every field at its default
Defaults(kind) ==
    [kind |-> kind, given |-> Mandatory(kind),
     u |-> GovernorBase_data.u, pmax |-> GovernorBase_data.pmax,
     pmin |-> GovernorBase_data.pmin, R |-> GovernorBase_data.R,
     wref0 |-> GovernorBase_data.wref0,
     T3 |-> TG1_data.T3, T4 |-> TG1_data.T4, T5 |-> TG1_data.T5,
     Tc |-> TG1_data.Tc, Ts |-> TG1_data.Ts,
     T1 |-> TG2_data.T1, T2 |-> TG2_data.T2]

NoSvc ==
    [pm0 |-> Unset, gain |-> Unset, pin |-> Unset, iTs |-> Unset,
     iTc |-> Unset, iT5 |-> Unset, k1 |-> Unset, k2 |-> Unset, k3 |-> Unset,
     k4 |-> Unset, T12 |-> Unset, iT2 |-> Unset]

(***************************************************************************)
(* Inputs of add(): the defaults with at most one field overridden or      *)
(* left out.                                                               *)
(***************************************************************************)
SynPm0Values == {Q(-1, 10), Q(1, 2), One, Q(21, 20)}

OmegaValues == {Q(19, 20), One, Q(21, 20)}

XgValues == {Zero, Q(1, 2)}

PoutValues == {Q(1, 2), One}

TG1_overrides ==
    {<<"none", Zero>>, <<"u", Zero>>, <<"R", Zero>>, <<"Ts", Zero>>,
     <<"Tc", Zero>>, <<"T5", Zero>>, <<"T3", Q(7, 50)>>}

TG2_overrides ==
    {<<"none", Zero>>, <<"u", Zero>>, <<"R", Zero>>, <<"T2", Zero>>}

WithField(rec, key, val) ==
    IF key = "none" THEN rec ELSE [rec EXCEPT ![key] = val]

GovInputs ==
    {WithField(Defaults("TG1"), o[1], o[2]) : o \in TG1_overrides}
    \cup {WithField(Defaults("TG2"), o[1], o[2]) : o \in TG2_overrides}
    \cup {[Defaults(k) EXCEPT !.given = Mandatory(k) \ {m}] :
        k \in {"TG1", "TG2"}, m \in {"R"}}

ZeroX == [omega |-> One, xg1 |-> Zero, xg2 |-> Zero, xg3 |-> Zero, xg |-> Zero]

ZeroF == [xg1 |-> Zero, xg2 |-> Zero, xg3 |-> Zero, xg |-> Zero]

ZeroG == [pm |-> Zero, wref |-> Zero, pout |-> Zero]

NoF == [valid |-> FALSE, x |-> ZeroX, y |-> ZeroG, raised |-> FALSE, out |-> ZeroF]

(***************************************************************************)
(* Library calls used by the governor.                                     *)
(***************************************************************************)
\* cvxopt div(a, b) on a zero divisor: a one-element operand is divided as
\* a scalar and raises ArithmeticError ("raise"); longer vectors are
\* divided elementwise in IEEE arithmetic ("inf").
DivModes == {"raise", "inf"}

div_raises(b, mode) == IsZero(b) /\ mode = "raise"

div(a, b) == Quot(a, b)

\* utils.math.algeb_limiter(v, vmin, vmax): v held inside [vmin, vmax]
algeb_limiter(v, vmin, vmax) ==
    IF Lt(v, vmin) THEN vmin ELSE IF Lt(vmax, v) THEN vmax ELSE v

\* ModelBase.limit_check(key, lower, upper, limit=True): the value clamped
\* to the nearest bound, and whether a range violation is reported
limit_check(v, lower, upper) ==
    [v |-> algeb_limiter(v, lower, upper),
     violated |-> Lt(v, lower) \/ Lt(upper, v)]

(***************************************************************************)
(* init1.  m is the part of the state init1 works on:                      *)
(* [svc, x, y, warn, err]; an exception leaves what was written before it. *)
(***************************************************************************)
GovernorBase_init1_unclamped(m, pp, spm0, mode) ==
    IF div_raises(pp.R, mode) THEN [m EXCEPT !.err = "ArithmeticError"]
    ELSE LET chk == limit_check(spm0, pp.pmin, pp.pmax)
         IN  [m EXCEPT !.svc.gain = div(One, pp.R),
                       !.svc.pm0 = chk.v,
                       !.warn = IF chk.violated
                                THEN m.warn \cup {"pm0 out of range"}
                                ELSE m.warn,
                       !.y.wref = pp.wref0,
                       !.y.pout = spm0]

GovernorBase_init1(m, pp, spm0, mode) ==
    IF div_raises(pp.R, mode) THEN [m EXCEPT !.err = "ArithmeticError"]
    ELSE LET chk == limit_check(spm0, pp.pmin, pp.pmax)
         IN  [m EXCEPT !.svc.gain = div(One, pp.R),
                       !.svc.pm0 = chk.v,
                       !.warn = IF chk.violated
                                THEN m.warn \cup {"pm0 out of range"}
                                ELSE m.warn,
                       !.y.wref = pp.wref0,
                       !.y.pout = chk.v]

TG1_init1_k4_from_k1(m, pp, spm0, mode) ==
    LET b == GovernorBase_init1(m, pp, spm0, mode)
    IN  IF b.err # "none" THEN b
        ELSE IF div_raises(pp.Ts, mode) \/ div_raises(pp.Tc, mode)
                \/ div_raises(pp.T5, mode)
        THEN [b EXCEPT !.err = "ArithmeticError"]
        ELSE LET iTs == div(One, pp.Ts)
                 iTc == div(One, pp.Tc)
                 iT5 == div(One, pp.T5)
                 k1 == Mul(pp.T3, iTc)
                 k2 == Sub(One, k1)
                 k3 == Mul(pp.T4, iT5)
                 k4 == Sub(One, k1)
                 pm0 == b.svc.pm0
             IN  [b EXCEPT !.svc.iTs = iTs, !.svc.iTc = iTc, !.svc.iT5 = iT5,
                           !.svc.k1 = k1, !.svc.k2 = k2, !.svc.k3 = k3,
                           !.svc.k4 = k4,
                           !.x.xg1 = Mul(pp.u, pm0),
                           !.x.xg2 = Mul3(pp.u, k2, pm0),
                           !.x.xg3 = Mul3(pp.u, k4, pm0)]

TG1_init1(m, pp, spm0, mode) ==
    LET b == GovernorBase_init1(m, pp, spm0, mode)
    IN  IF b.err # "none" THEN b
        ELSE IF div_raises(pp.Ts, mode) \/ div_raises(pp.Tc, mode)
                \/ div_raises(pp.T5, mode)
        THEN [b EXCEPT !.err = "ArithmeticError"]
        ELSE LET iTs == div(One, pp.Ts)
                 iTc == div(One, pp.Tc)
                 iT5 == div(One, pp.T5)
                 k1 == Mul(pp.T3, iTc)
                 k2 == Sub(One, k1)
                 k3 == Mul(pp.T4, iT5)
                 k4 == Sub(One, k3)
                 pm0 == b.svc.pm0
             IN  [b EXCEPT !.svc.iTs = iTs, !.svc.iTc = iTc, !.svc.iT5 = iT5,
                           !.svc.k1 = k1, !.svc.k2 = k2, !.svc.k3 = k3,
                           !.svc.k4 = k4,
                           !.x.xg1 = Mul(pp.u, pm0),
                           !.x.xg2 = Mul3(pp.u, k2, pm0),
                           !.x.xg3 = Mul3(pp.u, k4, pm0)]

TG2_init1(m, pp, spm0, mode) ==
    LET b == GovernorBase_init1(m, pp, spm0, mode)
    IN  IF b.err # "none" THEN b
        ELSE IF div_raises(pp.T2, mode)
        THEN [b EXCEPT !.err = "ArithmeticError"]
        ELSE [b EXCEPT !.svc.T12 = div(pp.T1, pp.T2),
                       !.svc.iT2 = div(One, pp.T2),
                       !.x.xg = Zero]

init1(m, pp, spm0, mode) ==
    IF pp.kind = "TG1" THEN TG1_init1(m, pp, spm0, mode)
    ELSE TG2_init1(m, pp, spm0, mode)

(***************************************************************************)
(* jac0: the constant Jacobian triples [blk, val, row, col].               *)
(***************************************************************************)
GovernorBase_jac0(pp, sv) ==
    {[blk |-> "Gy0", val |-> Neg(pp.u), row |-> "pm", col |-> "pout"],
     [blk |-> "Gy0", val |-> One, row |-> "wref", col |-> "wref"]}

TG1_jac0(pp, sv) == GovernorBase_jac0(pp, sv)

TG2_jac0(pp, sv) ==
    GovernorBase_jac0(pp, sv) \cup
    {[blk |-> "Fx0", val |-> Neg(sv.iT2), row |-> "xg", col |-> "xg"],
     [blk |-> "Fx0", val |-> Neg(Mul3(sv.iT2, sv.gain, Sub(One, sv.T12))),
      row |-> "xg", col |-> "omega"],
     [blk |-> "Gx0", val |-> One, row |-> "pout", col |-> "xg"],
     [blk |-> "Gx0", val |-> Neg(Mul(sv.gain, sv.T12)), row |-> "pout",
      col |-> "omega"],
     [blk |-> "Gy0", val |-> Neg(One), row |-> "pout", col |-> "pout"]}

jac0(pp, sv) == IF pp.kind = "TG1" THEN TG1_jac0(pp, sv) ELSE TG2_jac0(pp, sv)

(***************************************************************************)
(* gcall.  The residual expressions, then the callbacks writing them into  *)
(* dae.g ("+=" on the generator's pm row, "=" on the wref and pout rows).  *)
(***************************************************************************)
\* pm0 - u * pout: the governor's term of the generator's pm equation
pm_term(sv, pp, yy) == Sub(sv.pm0, Mul(pp.u, yy.pout))

\* wref - wref0
wref_term(pp, yy) == Sub(yy.wref, pp.wref0)

\* TG1: xg3 + k3 * (xg2 + k1 * xg1) - pout
TG1_pout_term(sv, xx, yy) ==
    Sub(Add(xx.xg3, Mul(sv.k3, Add(xx.xg2, Mul(sv.k1, xx.xg1)))), yy.pout)

\* TG2: limiter(xg + pm0 + gain * T12 * (wref0 - omega)) - pout
TG2_pout_term(sv, pp, xx, yy) ==
    LET pm == Add(Add(xx.xg, sv.pm0),
                  Mul3(sv.gain, sv.T12, Sub(pp.wref0, xx.omega)))
    IN  Sub(algeb_limiter(pm, pp.pmin, pp.pmax), yy.pout)

pout_term(sv, pp, xx, yy) ==
    IF pp.kind = "TG1" THEN TG1_pout_term(sv, xx, yy)
    ELSE TG2_pout_term(sv, pp, xx, yy)

\* self.pin as GovernorBase.gcall computes it
pin_value(sv, pp, xx) ==
    algeb_limiter(Add(sv.pm0, Mul(sv.gain, Sub(pp.wref0, xx.omega))),
                  pp.pmin, pp.pmax)

\* the callbacks work on c = [svc, g]
GovernorBase_gcall(c, pp, xx, yy) ==
    [c EXCEPT !.svc.pin = pin_value(c.svc, pp, xx),
              !.g.pm = Add(c.g.pm, pm_term(c.svc, pp, yy)),
              !.g.wref = wref_term(pp, yy)]

TG1_gcall(c, pp, xx, yy) ==
    LET b == GovernorBase_gcall(c, pp, xx, yy)
    IN  [b EXCEPT !.g.pout = TG1_pout_term(b.svc, xx, yy)]

TG2_gcall(c, pp, xx, yy) ==
    LET b == GovernorBase_gcall(c, pp, xx, yy)
    IN  [b EXCEPT !.g.pout = TG2_pout_term(b.svc, pp, xx, yy)]

gcall(c, pp, xx, yy) ==
    IF pp.kind = "TG1" THEN TG1_gcall(c, pp, xx, yy)
    ELSE TG2_gcall(c, pp, xx, yy)

(***************************************************************************)
(* fcall.  The result is [raised, out]: out holds the derivative rows      *)
(* after the call.                                                         *)
(***************************************************************************)
\* dae.y slots in allocation order: the generator's pm, then the governor's
\* algebraic variables in the order of self._algebs
YSlots == <<"pm", "wref", "pout">>

\* dae.y[idx]: idx has to be a whole number naming a slot
y_index_ok(idx) == idx.d = 1 /\ idx.n >= 0 /\ idx.n < Len(YSlots)

y_at(yy, idx) == yy[YSlots[idx.n + 1]]

TG1_fcall(sv, pp, xx, yy, ff) ==
    IF ~y_index_ok(sv.pin) THEN [raised |-> TRUE, out |-> ff]
    ELSE [raised |-> FALSE,
          out |-> [ff EXCEPT
              !.xg1 = Mul3(pp.u, Sub(y_at(yy, sv.pin), xx.xg1), sv.iTs),
              !.xg2 = Mul3(pp.u,
                           Sub(Mul(Sub(One, sv.k1), xx.xg1), xx.xg2),
                           sv.iTc),
              !.xg3 = Mul3(pp.u,
                           Sub(Mul(Sub(One, sv.k3),
                                   Add(xx.xg2, Mul(sv.k1, xx.xg1))),
                               xx.xg3),
                           sv.iT5)]]

\* iT2 * (gain * (1 - T12) * (wref0 - omega) - xg)
TG2_xg_term(sv, pp, xx) ==
    Mul(sv.iT2,
        Sub(Mul3(sv.gain, Sub(One, sv.T12), Sub(pp.wref0, xx.omega)),
            xx.xg))

TG2_fcall(sv, pp, xx, yy, ff) ==
    [raised |-> FALSE, out |-> [ff EXCEPT !.xg = TG2_xg_term(sv, pp, xx)]]

fcall(sv, pp, xx, yy, ff) ==
    IF pp.kind = "TG1" THEN TG1_fcall(sv, pp, xx, yy, ff)
    ELSE TG2_fcall(sv, pp, xx, yy, ff)

(***************************************************************************)
(* Contributions of other device models to the same evaluation pass.       *)
(***************************************************************************)
GRows == {"pm", "wref", "pout"}

\* what another model's gcall adds into a row it shares
OtherValues == {Q(1, 2)}

\* upper bound on the evaluation passes begun after setup
MaxPass == 1

\* another model's gcall, run once in a pass: dae.g[row] += c
other_gcall(gg, row, c) == [gg EXCEPT ![row] = Add(gg[row], c)]

(***************************************************************************)
(* The evaluation log of the current pass: one record per callback run,    *)
(* with dae.g as the callback found it.                                    *)
(***************************************************************************)
Event(cb, row, c, before) == [cb |-> cb, row |-> row, c |-> c, before |-> before]

Ran(cb) == \E i \in 1..Len(ran) : ran[i].cb = cb

(***************************************************************************)
(* Governor actions.                                                       *)
(***************************************************************************)
\* add(model_name, parameter_mapping): validation is deferred to setup
AddGovernor(pp) ==
    /\ phase = "new"
    /\ phase' = "added"
    /\ p' = pp
    /\ UNCHANGED <<svc, x, y, f, g, jac, warn, err, entered, divmode, synpm0,
                   ran, npass, lastF, pss>>

\* setup(): the mandatory check, then init1, then jac0
Setup ==
    /\ phase = "added"
    /\ IF ~(Mandatory(p.kind) \subseteq p.given)
       THEN /\ phase' = "failed"
            /\ err' = "SetupError"
            /\ UNCHANGED <<svc, x, y, warn, entered, jac>>
       ELSE LET m0 == [svc |-> svc, x |-> x, y |-> y, warn |-> warn,
                       err |-> "none"]
                m1 == init1(m0, p, synpm0, divmode)
            IN  /\ svc' = m1.svc
                /\ x' = m1.x
                /\ y' = m1.y
                /\ warn' = m1.warn
                /\ err' = m1.err
                /\ IF m1.err = "none"
                   THEN /\ phase' = "ready"
                        /\ entered' = entered \cup {"init1", "jac0"}
                        /\ jac' = jac0(p, m1.svc)
                   ELSE /\ phase' = "failed"
                        /\ entered' = entered \cup {"init1"}
                        /\ jac' = jac
    /\ UNCHANGED <<p, f, g, divmode, synpm0, ran, npass, lastF, pss>>

\* the governor state the solver moves besides the generator speed
StateField == IF p.kind = "TG1" THEN "xg1" ELSE "xg"

\* the solver sets new values and the assembly clears the accumulators
BeginPass(om, xv, pv) ==
    /\ phase = "ready"
    /\ npass < MaxPass
    /\ npass' = npass + 1
    /\ x' = [x EXCEPT !.omega = om, ![StateField] = xv]
    /\ y' = [y EXCEPT !.pout = pv]
    /\ g' = ZeroG
    /\ f' = ZeroF
    /\ ran' = <<>>
    /\ UNCHANGED <<phase, p, svc, jac, warn, err, entered, divmode, synpm0,
                   lastF, pss>>

GovGcall ==
    /\ phase = "ready"
    /\ ~Ran("gcall")
    /\ LET c == gcall([svc |-> svc, g |-> g], p, x, y)
       IN  /\ svc' = c.svc
           /\ g' = c.g
    /\ ran' = Append(ran, Event("gcall", "pm", Zero, g))
    /\ entered' = entered \cup {"gcall"}
    /\ UNCHANGED <<phase, p, x, y, f, jac, warn, err, divmode, synpm0, npass,
                   lastF, pss>>

GovFcall ==
    /\ phase = "ready"
    /\ LET r == fcall(svc, p, x, y, f)
       IN  /\ f' = r.out
           /\ lastF' = [valid |-> TRUE, x |-> x, y |-> y, raised |-> r.raised,
                        out |-> r.out]
           /\ phase' = IF r.raised THEN "aborted" ELSE phase
           /\ err' = IF r.raised THEN "TypeError" ELSE err
    /\ entered' = entered \cup {"fcall"}
    /\ UNCHANGED <<p, svc, x, y, g, jac, warn, divmode, synpm0, ran, npass,
                   pss>>

OtherGcall(row, c) ==
    /\ phase = "ready"
    /\ ~Ran("other")
    /\ g' = other_gcall(g, row, c)
    /\ ran' = Append(ran, Event("other", row, c, g))
    /\ UNCHANGED <<phase, p, svc, x, y, f, jac, warn, err, entered, divmode,
                   synpm0, npass, lastF, pss>>

(***************************************************************************)
(* STAB2A output limiter.  pss = [pc, HLIM_MAX, HLIM_MIN, V4, vsout, zi,   *)
(* zu, zl, g_vsout]; pc is the position in the iteration: "new" (no        *)
(* instance yet), "vars" (variables to be set), "limits" (limiter to be    *)
(* evaluated), "eqs" (equations to be evaluated).                          *)
(***************************************************************************)
\* HLIM_MAX / HLIM_MIN defaults
HLIM_MAX_default == Q(3, 10)

HLIM_MIN_default == Q(-3, 10)

\* half-width of the grid of tenths V4 and vsout are drawn from
PssSteps == 3

PssValues == {Q(k, 10) : k \in (0 - PssSteps)..PssSteps}

HlimValues == {HLIM_MIN_default, Zero, Q(1, 10), HLIM_MAX_default}

Bool01(b) == IF b THEN One ELSE Zero

\* core.Limiter(u, lower, upper): the three-way classifier
Limiter_check(u, lower, upper) ==
    [zi |-> Bool01(~Lt(u, lower) /\ ~Lt(upper, u)),
     zu |-> Bool01(Lt(upper, u)),
     zl |-> Bool01(Lt(u, lower))]

vsout_e_swapped(ps) ==
    Sub(Add(Add(Mul(ps.zi, ps.V4), Mul(ps.zu, ps.HLIM_MIN)),
            Mul(ps.zl, ps.HLIM_MAX)),
        ps.vsout)

\* vsout.e_str: HLIM_zi * V4 + HLIM_zu * HLIM_MAX + HLIM_zl * HLIM_MIN - vsout
vsout_e(ps) ==
    Sub(Add(Add(Mul(ps.zi, ps.V4), Mul(ps.zu, ps.HLIM_MAX)),
            Mul(ps.zl, ps.HLIM_MIN)),
        ps.vsout)

NoPss ==
    [pc |-> "new", HLIM_MAX |-> HLIM_MAX_default, HLIM_MIN |-> HLIM_MIN_default,
     V4 |-> Zero, vsout |-> Zero, zi |-> One, zu |-> Zero, zl |-> Zero,
     g_vsout |-> Zero]

\* add a STAB2A record with its two limits
AddStab2a(hmin, hmax) ==
    /\ pss.pc = "new"
    /\ Le(hmin, hmax)
    /\ pss' = [pss EXCEPT !.pc = "vars", !.HLIM_MIN = hmin, !.HLIM_MAX = hmax]
    /\ UNCHANGED govVars

\* the solver sets the algebraic variables
PssSetVars(v4, vs) ==
    /\ pss.pc = "vars"
    /\ pss' = [pss EXCEPT !.pc = "limits", !.V4 = v4, !.vsout = vs]
    /\ UNCHANGED govVars

\* HLIM = Limiter(u=V4, lower=HLIM_MIN, upper=HLIM_MAX) is evaluated
PssLimiter ==
    /\ pss.pc = "limits"
    /\ LET z == Limiter_check(pss.V4, pss.HLIM_MIN, pss.HLIM_MAX)
       IN  pss' = [pss EXCEPT !.pc = "eqs", !.zi = z.zi, !.zu = z.zu,
                              !.zl = z.zl]
    /\ UNCHANGED govVars

\* the vsout equation is evaluated
PssEquation ==
    /\ pss.pc = "eqs"
    /\ pss' = [pss EXCEPT !.pc = "vars", !.g_vsout = vsout_e(pss)]
    /\ UNCHANGED govVars

(***************************************************************************)
(* Specifications.                                                         *)
(***************************************************************************)
Init ==
    /\ phase = "new"
    /\ p = Defaults("TG1")
    /\ svc = NoSvc
    /\ synpm0 \in SynPm0Values
    /\ divmode \in DivModes
    /\ x = ZeroX
    /\ y = [pm |-> synpm0, wref |-> Zero, pout |-> Zero]
    /\ f = ZeroF
    /\ g = ZeroG
    /\ jac = {}
    /\ warn = {}
    /\ err = "none"
    /\ entered = {}
    /\ ran = <<>>
    /\ npass = 0
    /\ lastF = NoF
    /\ pss = NoPss

Next ==
    \/ \E pp \in GovInputs : AddGovernor(pp)
    \/ Setup
    \/ \E om \in OmegaValues, xv \in XgValues, pv \in PoutValues :
          BeginPass(om, xv, pv)
    \/ GovGcall
    \/ GovFcall
    \/ \E row \in GRows, c \in OtherValues : OtherGcall(row, c)

Spec == Init /\ [][Next]_vars

NextPss ==
    \/ \E hmin \in HlimValues, hmax \in HlimValues : AddStab2a(hmin, hmax)
    \/ \E v4 \in PssValues, vs \in PssValues : PssSetVars(v4, vs)
    \/ PssLimiter
    \/ PssEquation

InitPss == Init /\ synpm0 = One /\ divmode = "raise"

SpecPss == InitPss /\ [][NextPss]_vars

(***************************************************************************)
(* Helpers of the properties.                                              *)
(***************************************************************************)
\* no divisor of init1 is zero
NonZeroDivisors(pp) ==
    /\ ~IsZero(pp.R)
    /\ pp.kind = "TG1" => ~IsZero(pp.Ts) /\ ~IsZero(pp.Tc) /\ ~IsZero(pp.T5)
    /\ pp.kind = "TG2" => ~IsZero(pp.T2)

\* a time constant init1 divides by is zero
ZeroTimeConstant(pp) ==
    \/ pp.kind = "TG1" /\ (IsZero(pp.Ts) \/ IsZero(pp.Tc) \/ IsZero(pp.T5))
    \/ pp.kind = "TG2" /\ IsZero(pp.T2)

SetupAttempted == phase \notin {"new", "added"}

\* the governor's gcall was the latest callback to write dae.g
GcallLast == Len(ran) > 0 /\ ran[Len(ran)].cb = "gcall"

\* the governor's residual term of a row, at the current state
Term(row) ==
    IF row = "pm" THEN pm_term(svc, p, y)
    ELSE IF row = "wref" THEN wref_term(p, y)
    ELSE pout_term(svc, p, x, y)

AllFinite(rec, keys) == \A k \in keys : IsFinite(rec[k])

(***************************************************************************)
(* C1: for every governor (TG1 and TG2, any status u, any accepted         *)
(* parameters), a gcall evaluated on the state init1 wrote leaves exactly  *)
(* zero in the pout row and in the wref row.                               *)
(* The code does not satisfy this (TG1 with u = 0).                        *)
(***************************************************************************)
C1_InitResidualZero ==
    (phase = "ready" /\ NonZeroDivisors(p) /\ npass = 0 /\ GcallLast)
        => (g.pout = Zero /\ g.wref = Zero)

(***************************************************************************)
(* C2: TG1.init1 sets xg1 = u*pm0, xg2 = u*(1 - T3/Tc)*pm0 and             *)
(* xg3 = u*(1 - T4/T5)*pm0; with the default parameters and pm0 = 1 that   *)
(* is xg1 = 1, xg2 = 1, xg3 = 0.76, and gcall on that state leaves 0 in    *)
(* the pout row.                                                           *)
(***************************************************************************)
C2_TG1InitValues ==
    (phase = "ready" /\ p.kind = "TG1" /\ npass = 0) =>
        /\ x.xg1 = Mul(p.u, svc.pm0)
        /\ x.xg2 = Mul3(p.u, Sub(One, Quot(p.T3, p.Tc)), svc.pm0)
        /\ x.xg3 = Mul3(p.u, Sub(One, Quot(p.T4, p.T5)), svc.pm0)
        /\ (p = Defaults("TG1") /\ synpm0 = One) =>
              /\ x.xg1 = One
              /\ x.xg2 = One
              /\ x.xg3 = Q(76, 100)
              /\ GcallLast => g.pout = Zero

C2_Witness ==
    /\ phase = "ready"
    /\ p = Defaults("TG1")
    /\ synpm0 = One
    /\ npass = 0
    /\ GcallLast
    /\ x.xg3 = Q(19, 25)

(***************************************************************************)
(* C3: a copied pm0 outside [pmin, pmax] does not make init1 fail: pm0 is  *)
(* clamped to the nearest bound, a range warning is surfaced,              *)
(* initialization completes and the pout slot holds the clamped pm0.       *)
(***************************************************************************)
C3_Pm0Clamped ==
    (SetupAttempted /\ "init1" \in entered /\ NonZeroDivisors(p)
     /\ (Lt(synpm0, p.pmin) \/ Lt(p.pmax, synpm0))) =>
        /\ phase # "failed"
        /\ "jac0" \in entered
        /\ svc.pm0 = (IF Lt(p.pmax, synpm0) THEN p.pmax ELSE p.pmin)
        /\ "pm0 out of range" \in warn
        /\ npass = 0 => y.pout = svc.pm0

C3_Witness ==
    /\ phase = "ready"
    /\ p.kind = "TG2"
    /\ p.pmin = Zero
    /\ p.pmax = One
    /\ synpm0 = Q(105, 100)
    /\ svc.pm0 = One
    /\ y.pout = One
    /\ warn # {}

(***************************************************************************)
(* C4: with R = 0, setup raises a fatal setup error before init1 executes: *)
(* init1 never reaches gain = 1/R and nothing is written for the governor. *)
(* The code does not satisfy this: the division is the first statement of  *)
(* init1 and nothing rejects R = 0 before it.                              *)
(***************************************************************************)
C4_ZeroDroopRejected ==
    (SetupAttempted /\ IsZero(p.R)) =>
        /\ err = "SetupError"
        /\ "init1" \notin entered
        /\ svc = NoSvc
        /\ y.wref = Zero /\ y.pout = Zero

\* Replaying the log of a pass in another order.
Reverse(seq) == [i \in 1..Len(seq) |-> seq[Len(seq) + 1 - i]]

\* one logged callback applied to an accumulator, at the current x and y
ApplyG(gg, e) ==
    IF e.cb = "gcall" THEN gcall([svc |-> svc, g |-> gg], p, x, y).g
    ELSE other_gcall(gg, e.row, e.c)

RECURSIVE ReplayG(_, _)
ReplayG(gg, seq) ==
    IF seq = <<>> THEN gg ELSE ReplayG(ApplyG(gg, Head(seq)), Tail(seq))

(***************************************************************************)
(* C5: when the governor and another device model both contribute to an    *)
(* algebraic row (the generator's pm row, the governor's wref and pout     *)
(* rows), the row's total residual is the same whichever gcall runs first. *)
(* The code does not satisfy this on the wref and pout rows (see C6).      *)
(***************************************************************************)
C5_OrderIndependent ==
    (phase = "ready" /\ NonZeroDivisors(p) /\ Ran("gcall") /\ Ran("other"))
        => \A row \in GRows : g[row] = ReplayG(ZeroG, Reverse(ran))[row]

\* dae.g as the i-th callback of the pass left it
GAfter(i) == IF i = Len(ran) THEN g ELSE ran[i + 1].before

(***************************************************************************)
(* C6: every write of a governor gcall into dae.g adds to the value        *)
(* already in the row: on the pm, wref and pout rows the value after gcall *)
(* is the value before plus the governor's residual term.                  *)
(* The code does not satisfy this: the wref and pout rows are assigned.    *)
(***************************************************************************)
C6_GcallAdds ==
    (phase = "ready" /\ NonZeroDivisors(p)) =>
        \A i \in 1..Len(ran) :
            ran[i].cb = "gcall" =>
                \A row \in GRows :
                    GAfter(i)[row] = Add(ran[i].before[row], Term(row))

\* the derivative rows a model writes
StateRows(kind) == IF kind = "TG1" THEN {"xg1", "xg2", "xg3"} ELSE {"xg"}

(***************************************************************************)
(* C7: fcall is a pure function of dae.x, dae.y and the parameters: two    *)
(* calls on the same x and y write the same derivatives, whatever gcall    *)
(* ran before them.                                                        *)
(* The code does not satisfy this for TG1, whose fcall reads through       *)
(* self.pin, assigned only by gcall.                                       *)
(***************************************************************************)
C7_FcallPure ==
    (phase = "ready" /\ NonZeroDivisors(p) /\ lastF.valid
     /\ lastF.x = x /\ lastF.y = y) =>
        LET r == fcall(svc, p, x, y, f)
        IN  /\ r.raised = lastF.raised
            /\ \A k \in StateRows(p.kind) : r.out[k] = lastF.out[k]

\* Difference quotients of the residuals.
JacStep == Q(1, 100)

\* the governor's residual of a row at x = xx, y = yy
Residual(row, xx, yy) ==
    IF row = "pm" THEN pm_term(svc, p, yy)
    ELSE IF row = "wref" THEN wref_term(p, yy)
    ELSE IF row = "pout" THEN pout_term(svc, p, xx, yy)
    ELSE TG2_xg_term(svc, p, xx)

\* the difference quotient of a row along a column
Slope(row, col, h) ==
    LET xx == IF col \in {"omega", "xg"}
              THEN [x EXCEPT ![col] = Add(x[col], h)] ELSE x
        yy == IF col \in {"wref", "pout"}
              THEN [y EXCEPT ![col] = Add(y[col], h)] ELSE y
    IN  Quot(Sub(Residual(row, xx, yy), Residual(row, x, y)), h)

\* the residual is differentiable along col here (no kink within a step)
Differentiable(row, col) ==
    Slope(row, col, JacStep) = Slope(row, col, Neg(JacStep))

(***************************************************************************)
(* C8: every constant Jacobian triple registered by jac0 equals the        *)
(* partial derivative of the model's residual of that row with respect to  *)
(* that column, at every state (on either side of the TG2 limits).         *)
(* The code does not satisfy this where the TG2 output is limited.         *)
(***************************************************************************)
C8_Jac0IsDerivative ==
    (phase = "ready" /\ NonZeroDivisors(p)) =>
        \A e \in jac :
            Differentiable(e.row, e.col) =>
                Slope(e.row, e.col, JacStep) = e.val

\* the value the active flag selects
Selected(ps) ==
    IF ps.zi = One THEN ps.V4
    ELSE IF ps.zu = One THEN ps.HLIM_MAX
    ELSE ps.HLIM_MIN

(***************************************************************************)
(* C9: for a limiter with lower <= upper, exactly one of zi, zu, zl is     *)
(* active for any input, and the vsout equation selects exactly one value: *)
(* its residual is zero iff vsout is V4 (zi), HLIM_MAX (zu) or HLIM_MIN    *)
(* (zl).                                                                   *)
(***************************************************************************)
C9_LimiterSelectsOne ==
    /\ pss.pc \in {"eqs", "vars"} =>
          /\ {pss.zi, pss.zu, pss.zl} \subseteq {Zero, One}
          /\ Add(Add(pss.zi, pss.zu), pss.zl) = One
    /\ pss.pc = "eqs" =>
          /\ pss.zi = One <=> (Le(pss.HLIM_MIN, pss.V4) /\ Le(pss.V4, pss.HLIM_MAX))
          /\ pss.zu = One <=> Lt(pss.HLIM_MAX, pss.V4)
          /\ pss.zl = One <=> Lt(pss.V4, pss.HLIM_MIN)
          /\ vsout_e(pss) = Zero <=> pss.vsout = Selected(pss)
    /\ pss.pc = "vars" => (pss.g_vsout = Zero <=> pss.vsout = Selected(pss))

C9_Witness ==
    /\ pss.pc = "vars"
    /\ pss.zu = One
    /\ Lt(pss.HLIM_MAX, pss.V4)
    /\ Lt(pss.HLIM_MIN, pss.HLIM_MAX)
    /\ pss.vsout = pss.HLIM_MAX
    /\ pss.g_vsout = Zero

(***************************************************************************)
(* C10: a governor with a required time constant equal to zero (TG1: Ts,   *)
(* Tc or T5; TG2: T2) is rejected with an error during setup, and no NaN   *)
(* or Inf is written into the shared vectors.                              *)
(* The code does not satisfy this: nothing checks the time constants, and  *)
(* an elementwise division yields Inf that the callbacks write out.        *)
(***************************************************************************)
C10_ZeroTimeConstantRejected ==
    (SetupAttempted /\ ZeroTimeConstant(p)) =>
        /\ phase = "failed"
        /\ err # "none"
        /\ AllFinite(x, DOMAIN x)
        /\ AllFinite(y, DOMAIN y)
        /\ AllFinite(f, DOMAIN f)
        /\ AllFinite(g, DOMAIN g)

\* C11: the state values written by init1 are a steady-state operating
\* point: for an in-service governor (u = 1) with valid divisors whose
\* generator speed equals wref0, gcall followed by fcall on the initial
\* state (before any pass moves it) completes and leaves a zero
\* time-derivative in every governor state row (xg1, xg2, xg3 for TG1; xg
\* for TG2).
C11_InitSteadyState ==
    (/\ "jac0" \in entered
     /\ npass = 0
     /\ p.u = One
     /\ NonZeroDivisors(p)
     /\ x.omega = p.wref0
     /\ Ran("gcall")
     /\ lastF.valid)
    => /\ ~lastF.raised
       /\ \A r \in StateRows(p.kind) : IsZero(lastF.out[r])

=============================================================================
